---- MODULE Spec2Model ----
(***************************************************************************)
(* NodeDssSignaler: the polling signaler of MixedReality-WebRTC's Unity    *)
(* integration.  Two signaler instances ("A" and "B") exchange SDP offers, *)
(* answers and ICE candidates through a node-dss relay: POST data/<remote> *)
(* to publish, GET data/<local> to poll.  Every handler runs on Unity's    *)
(* main thread; a coroutine suspends at `yield return SendWebRequest()`    *)
(* and is resumed when the request has completed.                          *)
(*                                                                         *)
(* Strings are sequences of one-character strings.                         *)
(***************************************************************************)
EXTENDS Integers, Sequences, FiniteSets, Bags, TLC

(***************************************************************************)
(* Configuration and bounds                                                *)
(***************************************************************************)
Peers == {"A", "B"}

\* public float PollTimeMs = 500f
PollTimeMs == 500

\* Time.deltaTime * 1000 of one frame: a multiple of TickUnit
TickUnit == 250
MaxTickSteps == 2
ElapsedValues == {k * TickUnit : k \in 0..MaxTickSteps}

\* the history of elapsed time saturates just above the interval
ElapsedCap == PollTimeMs + 1

\* publishes in flight at once, messages waiting in one relay queue
MaxPosts == 2
MaxRelay == 1

VARIABLES
    AutoLogErrors,      \* [Peers -> BOOLEAN], the inspector setting
    enabled,            \* [Peers -> BOOLEAN]: Unity calls Update() of the behaviour
    RemotePeerId,       \* [Peers -> Peers]
    timeSincePollMs,    \* [Peers -> Nat]
    lastGetComplete,    \* [Peers -> BOOLEAN]
    gets,               \* [Peers -> Nat]: CO_GetAndProcessFromServer coroutines suspended at the yield
    posts,              \* bag of PostToServer coroutines suspended at the yield
    relay,              \* [Peers -> Seq(json text)]: the node-dss queue of each id
    answerPending,      \* [Peers -> BOOLEAN]: CreateAnswer() called, answer not yet raised
    elapsedSincePoll,   \* [Peers -> Nat]: elapsed time of all ticks since start / the last fetch issued
    last                \* what the handler that ran last did (calls, logs, outcome)

vars == <<AutoLogErrors, enabled, RemotePeerId, timeSincePollMs, lastGetComplete, gets,
          posts, relay, answerPending, elapsedSincePoll, last>>

(***************************************************************************)
(* Strings                                                                 *)
(***************************************************************************)
Digits == <<"0", "1", "2", "3", "4", "5", "6", "7", "8", "9">>

DigitChars == {Digits[k] : k \in 1..10}

DigitVal(ch) == (CHOOSE k \in 1..10 : Digits[k] = ch) - 1

\* the interpolation {sdpMlineIndex} of a non-negative int
RECURSIVE IntToString(_)
IntToString(i) ==
    IF i < 10 THEN <<Digits[i + 1]>>
    ELSE IntToString(i \div 10) \o <<Digits[(i % 10) + 1]>>

\* int.Parse succeeds on a non-empty run of digits
IsInt(s) == s # <<>> /\ \A k \in 1..Len(s) : s[k] \in DigitChars

RECURSIVE IntParse(_)
IntParse(s) ==
    IF s = <<>> THEN 0
    ELSE IntParse(SubSeq(s, 1, Len(s) - 1)) * 10 + DigitVal(s[Len(s)])

\* String.Split(sep, StringSplitOptions.None): every segment, empty ones too
RECURSIVE SplitAll(_, _)
SplitAll(s, sep) ==
    IF s = <<>> THEN << <<>> >>
    ELSE LET rest == SplitAll(Tail(s), sep)
         IN  IF Head(s) = sep THEN << <<>> >> \o rest
             ELSE << <<Head(s)>> \o Head(rest) >> \o Tail(rest)

\* String.Split(new string[] { sep }, StringSplitOptions.RemoveEmptyEntries)
Split(s, sep) == SelectSeq(SplitAll(s, sep), LAMBDA x : x # <<>>)

(***************************************************************************)
(* SignalerMessage and its wire form                                       *)
(***************************************************************************)
\* the SDP blobs the native peer produces
Sdps == {<<"v">>}

\* the candidates the local native peer hands to the signaler
Candidates == {<<"c">>}
Mids == {<<"a">>}
LineIndexes == {0}

\* the candidates a remote signaler is handed by its native peer
RemoteIce == {<< <<"c">>, 0, <<"a">> >>, << <<"c">>, 12, <<"a">> >>,
              << <<"c">>, 0, <<>> >>, << <<"c">>, 0, <<"a", "|", "a">> >>,
              << <<>>, 0, <<"a">> >>}

\* new SignalerMessage() { MessageType = Offer, Data = offer }
OfferMessage(offer) ==
    [MessageType |-> "Offer", Data |-> offer, IceDataSeparator |-> <<>>]

\* new SignalerMessage() { MessageType = Answer, Data = answer }
AnswerMessage(answer) ==
    [MessageType |-> "Answer", Data |-> answer, IceDataSeparator |-> <<>>]

\* Data = $"{candidate}|{sdpMlineIndex}|{sdpMid}", IceDataSeparator = "|"
IceMessage(candidate, sdpMlineIndex, sdpMid) ==
    [MessageType |-> "Ice",
     Data |-> candidate \o <<"|">> \o IntToString(sdpMlineIndex) \o <<"|">> \o sdpMid,
     IceDataSeparator |-> <<"|">>]

\* JsonUtility.ToJson(msg): the text of one JSON object
ToJson(msg) == <<msg>>

\* a body that is not JSON (an HTML page put there by a proxy, a cut-off
\* object), kept in the shape of the other texts
NotJson == <<[MessageType |-> "NotJson", Data |-> <<"<">>, IceDataSeparator |-> <<>>]>>

\* JsonUtility.FromJson throws ArgumentException on a text it cannot parse
FromJsonThrows(json) == json = NotJson

\* JsonUtility.FromJson<SignalerMessage>(json): null (<<>>) for an empty text
FromJson(json) == IF json = <<>> THEN <<>> ELSE <<json[1]>>

\* the texts other clients of the relay post for a signaler: what a remote
\* NodeDssSignaler publishes, and what another tool or protocol version may
\* write (an empty body, a body that is not JSON, an unknown type, an Ice
\* payload of another shape)
RemoteTexts ==
    {<<>>, NotJson}
    \cup {ToJson(OfferMessage(sdp)) : sdp \in Sdps}
    \cup {ToJson(AnswerMessage(sdp)) : sdp \in Sdps}
    \cup {ToJson(IceMessage(t[1], t[2], t[3])) : t \in RemoteIce}
    \cup {ToJson([MessageType |-> "Unknown", Data |-> sdp, IceDataSeparator |-> <<>>]) :
            sdp \in Sdps}
    \cup {ToJson([MessageType |-> "Ice", Data |-> <<"c", "|", "c", "|", "a">>,
                  IceDataSeparator |-> <<"|">>])}

(***************************************************************************)
(* UnityWebRequest results                                                 *)
(***************************************************************************)
Www(status, text) == [status |-> status, text |-> text]

NoWww == Www("none", <<>>)

isNetworkError(www) == www.status = "networkError"

\* a response code >= 400; node-dss answers 404 when nothing is pending
isHttpError(www) == www.status \in {"notFound", "serverError"}

(***************************************************************************)
(* Calls into the native peer, lines written to the Unity console          *)
(***************************************************************************)
SetRemoteDescription(type, sdp) ==
    [op |-> "SetRemoteDescription", type |-> type, sdp |-> sdp]

CreateAnswer == [op |-> "CreateAnswer"]

AddIceCandidate(candidate, sdpMlineIndex, sdpMid) ==
    [op |-> "AddIceCandidate", candidate |-> candidate,
     sdpMlineIndex |-> sdpMlineIndex, sdpMid |-> sdpMid]

Done(calls, logs) == [calls |-> calls, logs |-> logs, threw |-> FALSE]

\* an exception leaves the coroutine: Unity logs it and drops the coroutine
Threw(calls, logs) == [calls |-> calls, logs |-> logs, threw |-> TRUE]

\* case SignalerMessage.WireMessageType.Ice
DispatchIce(msg, logs) ==
    LET parts == Split(msg.Data, msg.IceDataSeparator[1])
    IN  IF Len(parts) >= 3 /\ IsInt(parts[2])
        THEN Done(<<AddIceCandidate(parts[1], IntParse(parts[2]), parts[3])>>, logs)
        ELSE Threw(<<>>, logs)

\* the switch with the Offer case falling short of CreateAnswer() and the
\* Answer case answering too
Dispatch_AnswerSwapped(msg) ==
    LET logs == <<"Received SDP message">>
    IN  CASE msg.MessageType = "Offer" ->
                Done(<<SetRemoteDescription("offer", msg.Data)>>, logs)
          [] msg.MessageType = "Answer" ->
                Done(<<SetRemoteDescription("answer", msg.Data), CreateAnswer>>, logs)
          [] msg.MessageType = "Ice" -> DispatchIce(msg, logs)
          [] OTHER -> Done(<<>>, logs \o <<"Unknown message">>)

\* the switch on msg.MessageType
Dispatch(msg) ==
    LET logs == <<"Received SDP message">>
    IN  CASE msg.MessageType = "Offer" ->
                Done(<<SetRemoteDescription("offer", msg.Data), CreateAnswer>>, logs)
          [] msg.MessageType = "Answer" ->
                Done(<<SetRemoteDescription("answer", msg.Data)>>, logs)
          [] msg.MessageType = "Ice" -> DispatchIce(msg, logs)
          [] OTHER -> Done(<<>>, logs \o <<"Unknown message">>)

\* the same with the `Debug.LogError($"HTTP error: ...")` of the last branch
Process_LogHttpError(www, autoLogErrors) ==
    IF ~isNetworkError(www) /\ ~isHttpError(www)
    THEN IF FromJsonThrows(www.text) THEN Threw(<<>>, <<>>)
         ELSE LET msg == FromJson(www.text)
              IN  IF msg # <<>> THEN Dispatch(msg[1])
                  ELSE IF autoLogErrors
                       THEN Done(<<>>, <<"Failed to deserialize JSON message">>)
                       ELSE Done(<<>>, <<>>)
    ELSE IF autoLogErrors /\ isNetworkError(www)
         THEN Done(<<>>, <<"Network error">>)
         ELSE Done(<<>>, <<"HTTP error">>)

\* CO_GetAndProcessFromServer after the yield, up to `lastGetComplete = true`
Process(www, autoLogErrors) ==
    IF ~isNetworkError(www) /\ ~isHttpError(www)
    THEN IF FromJsonThrows(www.text) THEN Threw(<<>>, <<>>)
         ELSE LET msg == FromJson(www.text)
              IN  IF msg # <<>> THEN Dispatch(msg[1])
                  ELSE IF autoLogErrors
                       THEN Done(<<>>, <<"Failed to deserialize JSON message">>)
                       ELSE Done(<<>>, <<>>)
    ELSE IF autoLogErrors /\ isNetworkError(www)
         THEN Done(<<>>, <<"Network error">>)
         ELSE Done(<<>>, <<>>)

(***************************************************************************)
(* State                                                                   *)
(***************************************************************************)
Effect(op, p, outcome, www, calls, logs) ==
    [op |-> op, peer |-> p, outcome |-> outcome, www |-> www,
     calls |-> calls, logs |-> logs]

Min(a, b) == IF a < b THEN a ELSE b

\* field initialisers, and Start() with LocalPeerId and RemotePeerId configured
Init ==
    /\ AutoLogErrors \in {[p \in Peers |-> b] : b \in BOOLEAN}
    /\ enabled = [p \in Peers |-> TRUE]
    /\ RemotePeerId = [p \in Peers |-> CHOOSE q \in Peers : q # p]
    /\ timeSincePollMs = [p \in Peers |-> 0]
    /\ lastGetComplete = [p \in Peers |-> TRUE]
    /\ gets = [p \in Peers |-> 0]
    /\ posts = EmptyBag
    /\ relay = [p \in Peers |-> <<>>]
    /\ answerPending = [p \in Peers |-> FALSE]
    /\ elapsedSincePoll = [p \in Peers |-> 0]
    /\ last = Effect("Start", "A", "none", NoWww, <<>>, <<>>)

(***************************************************************************)
(* Update(): one frame, `elapsed` = Time.deltaTime * 1000                  *)
(***************************************************************************)
\* Update() without the `if (!lastGetComplete) return;` test
UpdateOutcome_NoGuard(p) ==
    IF timeSincePollMs[p] <= PollTimeMs THEN "wait" ELSE "poll"

\* Update() with `<` for `<=` in its first test
UpdateOutcome_Strict(p) ==
    IF timeSincePollMs[p] < PollTimeMs THEN "wait"
    ELSE IF ~lastGetComplete[p] THEN "busy"
    ELSE "poll"

\* Update() with its first test inverted
UpdateOutcome_Inverted(p) ==
    IF timeSincePollMs[p] > PollTimeMs THEN "wait"
    ELSE IF ~lastGetComplete[p] THEN "busy"
    ELSE "poll"

UpdateOutcome(p) ==
    IF timeSincePollMs[p] <= PollTimeMs THEN "wait"
    ELSE IF ~lastGetComplete[p] THEN "busy"
    ELSE "poll"

\* Update() starting the coroutine without `lastGetComplete = false`
Update_GuardNotSet(p, elapsed) ==
    LET outcome == UpdateOutcome(p)
    IN  /\ enabled[p]
        /\ timeSincePollMs' =
              [timeSincePollMs EXCEPT
                 ![p] = CASE outcome = "wait" -> @ + elapsed
                          [] outcome = "busy" -> @
                          [] outcome = "poll" -> 0]
        /\ lastGetComplete' = lastGetComplete
        /\ gets' = IF outcome = "poll" THEN [gets EXCEPT ![p] = @ + 1] ELSE gets
        /\ elapsedSincePoll' =
              [elapsedSincePoll EXCEPT
                 ![p] = IF outcome = "poll" THEN 0 ELSE Min(@ + elapsed, ElapsedCap)]
        /\ last' = Effect("Update", p, outcome, NoWww, <<>>, <<>>)
        /\ UNCHANGED <<AutoLogErrors, enabled, RemotePeerId, posts, relay, answerPending>>

Update(p, elapsed) ==
    LET outcome == UpdateOutcome(p)
    IN  /\ enabled[p]
        /\ timeSincePollMs' =
              [timeSincePollMs EXCEPT
                 ![p] = CASE outcome = "wait" -> @ + elapsed
                          [] outcome = "busy" -> @
                          [] outcome = "poll" -> 0]
        /\ lastGetComplete' =
              IF outcome = "poll" THEN [lastGetComplete EXCEPT ![p] = FALSE]
              ELSE lastGetComplete
        \* StartCoroutine runs CO_GetAndProcessFromServer up to its yield
        /\ gets' = IF outcome = "poll" THEN [gets EXCEPT ![p] = @ + 1] ELSE gets
        /\ elapsedSincePoll' =
              [elapsedSincePoll EXCEPT
                 ![p] = IF outcome = "poll" THEN 0 ELSE Min(@ + elapsed, ElapsedCap)]
        /\ last' = Effect("Update", p, outcome, NoWww, <<>>, <<>>)
        /\ UNCHANGED <<AutoLogErrors, enabled, RemotePeerId, posts, relay, answerPending>>

(***************************************************************************)
(* The native peer: an answer asked for with CreateAnswer() is raised      *)
(* later, and reaches the signaler as OnSdpAnswerReadyToSend               *)
(***************************************************************************)
AnswerRequested(calls) == \E k \in 1..Len(calls) : calls[k] = CreateAnswer

AnswerReady(p) == answerPending[p]

(***************************************************************************)
(* CO_GetAndProcessFromServer resumed with the finished request            *)
(***************************************************************************)
Resume(p, www) ==
    LET r == Process(www, AutoLogErrors[p])
    IN  /\ gets[p] > 0
        /\ gets' = [gets EXCEPT ![p] = @ - 1]
        /\ lastGetComplete' =
              IF r.threw THEN lastGetComplete
              ELSE [lastGetComplete EXCEPT ![p] = TRUE]
        /\ answerPending' =
              IF AnswerRequested(r.calls)
              THEN [answerPending EXCEPT ![p] = TRUE]
              ELSE answerPending
        /\ last' = Effect("Get", p, IF r.threw THEN "exception" ELSE "complete",
                          www, r.calls, r.logs)
        /\ UNCHANGED <<AutoLogErrors, enabled, RemotePeerId, timeSincePollMs, posts,
                       elapsedSincePoll>>

\* the relay answers GET data/<LocalPeerId>: the oldest pending text, or 404
GetAnswered(p) ==
    IF relay[p] = <<>>
    THEN Resume(p, Www("notFound", <<>>)) /\ UNCHANGED relay
    ELSE /\ Resume(p, Www("ok", Head(relay[p])))
         /\ relay' = [relay EXCEPT ![p] = Tail(@)]

\* the request fails: no connection, or an HTTP error other than 404
GetFailed(p, status) ==
    /\ status \in {"networkError", "serverError"}
    /\ Resume(p, Www(status, <<>>))
    /\ UNCHANGED relay


(***************************************************************************)
(* Publishing: the three callbacks and PostToServer                        *)
(***************************************************************************)
\* the PostToServer coroutines of p suspended at the yield
PostsOf(p) ==
    BagCardinality([post \in {q \in BagToSet(posts) : q.from = p} |-> posts[post]])

\* PostToServer with LocalPeerId for RemotePeerId in the URL
PostToServer_ToSelf(p, msg) ==
    /\ PostsOf(p) < MaxPosts
    /\ posts' = posts (+) SetToBag({[from |-> p, to |-> p, text |-> ToJson(msg)]})
    /\ last' = Effect("Post", p, msg.MessageType, NoWww, <<>>, <<>>)
    /\ UNCHANGED <<AutoLogErrors, enabled, RemotePeerId, timeSincePollMs, lastGetComplete,
                   gets, relay, elapsedSincePoll>>

\* PostToServer up to its yield: the request is built and sent
PostToServer(p, msg) ==
    /\ PostsOf(p) < MaxPosts
    /\ posts' = posts (+) SetToBag({[from |-> p, to |-> RemotePeerId[p],
                                     text |-> ToJson(msg)]})
    /\ last' = Effect("Post", p, msg.MessageType, NoWww, <<>>, <<>>)
    /\ UNCHANGED <<AutoLogErrors, enabled, RemotePeerId, timeSincePollMs, lastGetComplete,
                   gets, relay, elapsedSincePoll>>

OnIceCandiateReadyToSend(p, candidate, sdpMlineIndex, sdpMid) ==
    /\ PostToServer(p, IceMessage(candidate, sdpMlineIndex, sdpMid))
    /\ UNCHANGED answerPending

OnSdpOfferReadyToSend(p, offer) ==
    /\ PostToServer(p, OfferMessage(offer))
    /\ UNCHANGED answerPending

\* raised by the native peer once for each CreateAnswer()
OnSdpAnswerReadyToSend(p, answer) ==
    /\ AnswerReady(p)
    /\ answerPending' = [answerPending EXCEPT ![p] = FALSE]
    /\ PostToServer(p, AnswerMessage(answer))

\* PostToServer resumed with the finished request
PostLogs(post, status) ==
    IF AutoLogErrors[post.from] /\ status # "ok"
    THEN <<"Failure sending message">> ELSE <<>>

\* PostToServer building its URL after the yield, from the RemotePeerId of
\* the time the request ends
PostDone_LateAddress(post, status) ==
    /\ BagIn(post, posts)
    /\ status \in {"ok", "networkError", "serverError"}
    /\ posts' = posts (-) SetToBag({post})
    /\ IF status = "ok"
       THEN /\ Len(relay[RemotePeerId[post.from]]) < MaxRelay
            /\ relay' = [relay EXCEPT ![RemotePeerId[post.from]] = Append(@, post.text)]
       ELSE UNCHANGED relay
    /\ last' = Effect("PostDone", post.from, status, Www(status, <<>>), <<>>,
                      PostLogs(post, status))
    /\ UNCHANGED <<AutoLogErrors, enabled, RemotePeerId, timeSincePollMs, lastGetComplete,
                   gets, answerPending, elapsedSincePoll>>

\* PostToServer ending like CO_GetAndProcessFromServer, with
\* `lastGetComplete = true`
PostDone_ClearsGuard(post, status) ==
    /\ BagIn(post, posts)
    /\ status \in {"ok", "networkError", "serverError"}
    /\ posts' = posts (-) SetToBag({post})
    /\ IF status = "ok"
       THEN /\ Len(relay[post.to]) < MaxRelay
            /\ relay' = [relay EXCEPT ![post.to] = Append(@, post.text)]
       ELSE UNCHANGED relay
    /\ lastGetComplete' = [lastGetComplete EXCEPT ![post.from] = TRUE]
    /\ last' = Effect("PostDone", post.from, status, Www(status, <<>>), <<>>,
                      PostLogs(post, status))
    /\ UNCHANGED <<AutoLogErrors, enabled, RemotePeerId, timeSincePollMs,
                   gets, answerPending, elapsedSincePoll>>

\* PostToServer sending the request again when it failed
PostDone_Retry(post, status) ==
    /\ BagIn(post, posts)
    /\ status \in {"ok", "networkError", "serverError"}
    /\ posts' = IF status = "ok" THEN posts (-) SetToBag({post}) ELSE posts
    /\ IF status = "ok"
       THEN /\ Len(relay[post.to]) < MaxRelay
            /\ relay' = [relay EXCEPT ![post.to] = Append(@, post.text)]
       ELSE UNCHANGED relay
    /\ last' = Effect("PostDone", post.from, status, Www(status, <<>>), <<>>,
                      PostLogs(post, status))
    /\ UNCHANGED <<AutoLogErrors, enabled, RemotePeerId, timeSincePollMs, lastGetComplete,
                   gets, answerPending, elapsedSincePoll>>

PostDone(post, status) ==
    /\ BagIn(post, posts)
    /\ status \in {"ok", "networkError", "serverError"}
    /\ posts' = posts (-) SetToBag({post})
    /\ IF status = "ok"
       THEN /\ Len(relay[post.to]) < MaxRelay
            /\ relay' = [relay EXCEPT ![post.to] = Append(@, post.text)]
       ELSE UNCHANGED relay
    /\ last' = Effect("PostDone", post.from, status, Www(status, <<>>), <<>>,
                      PostLogs(post, status))
    /\ UNCHANGED <<AutoLogErrors, enabled, RemotePeerId, timeSincePollMs, lastGetComplete,
                   gets, answerPending, elapsedSincePoll>>

(***************************************************************************)
(* The other clients of the relay                                          *)
(***************************************************************************)
\* GET data/<LocalPeerId> returns a text that another client posted
GetRemote(p, text) ==
    /\ text \in RemoteTexts
    /\ Resume(p, Www("ok", text))
    /\ UNCHANGED relay

\* GET data/<id> by another client took the oldest text
RemoteTook(id) ==
    /\ relay[id] # <<>>
    /\ relay' = [relay EXCEPT ![id] = Tail(@)]
    /\ last' = Effect("RemoteTook", id, "ok", NoWww, <<>>, <<>>)
    /\ UNCHANGED <<AutoLogErrors, enabled, RemotePeerId, timeSincePollMs, lastGetComplete,
                   gets, posts, answerPending, elapsedSincePoll>>

(***************************************************************************)
(* One signaler, "A", and the relay it shares with the rest of the world   *)
(***************************************************************************)
Local == {"A"}

Next ==
    \/ \E p \in Local, elapsed \in ElapsedValues : Update(p, elapsed)
    \/ \E p \in Local : GetAnswered(p)
    \/ \E p \in Local, status \in {"networkError", "serverError"} : GetFailed(p, status)
    \/ \E p \in Local, c \in Candidates, i \in LineIndexes, mid \in Mids :
          OnIceCandiateReadyToSend(p, c, i, mid)
    \/ \E p \in Local, offer \in Sdps : OnSdpOfferReadyToSend(p, offer)
    \/ \E p \in Local, answer \in Sdps : OnSdpAnswerReadyToSend(p, answer)
    \/ \E post \in BagToSet(posts), status \in {"ok", "networkError", "serverError"} :
          PostDone(post, status)
    \/ \E p \in Local, text \in RemoteTexts : GetRemote(p, text)
    \/ \E id \in Peers \ Local : RemoteTook(id)

Spec == Init /\ [][Next]_vars

\* Unity calls Update() every frame, and frames take time; every web request
\* sent ends, and its coroutine is resumed
GetEnds(p) ==
    \/ GetAnswered(p)
    \/ \E status \in {"networkError", "serverError"} : GetFailed(p, status)
    \/ \E text \in RemoteTexts : GetRemote(p, text)

Frame(p) == \E elapsed \in ElapsedValues \ {0} : Update(p, elapsed)

FairSpec ==
    /\ Init
    /\ [][Next]_vars
    /\ \A p \in Local : WF_vars(Frame(p)) /\ WF_vars(GetEnds(p))

(***************************************************************************)
(* The session ends: the behaviour is disabled, Unity calls Update() no    *)
(* more, and the requests in flight are left to end                        *)
(***************************************************************************)
SessionEnds(p) ==
    /\ enabled[p]
    /\ enabled' = [enabled EXCEPT ![p] = FALSE]
    /\ last' = Effect("SessionEnds", p, "none", NoWww, <<>>, <<>>)
    /\ UNCHANGED <<AutoLogErrors, RemotePeerId, timeSincePollMs, lastGetComplete,
                   gets, posts, relay, answerPending, elapsedSincePoll>>

TeardownNext ==
    \/ Next
    \/ \E p \in Local : SessionEnds(p)

Teardown == Init /\ [][TeardownNext]_vars

(***************************************************************************)
(* The application changes the public field RemotePeerId while "A" polls   *)
(* and publishes offers and candidates; every request reaches the relay    *)
(***************************************************************************)
\* frames of one length, the longest
LongFrame == MaxTickSteps * TickUnit

\* an assignment to the public field RemotePeerId
SetRemotePeerId(p, id) ==
    /\ id # RemotePeerId[p]
    /\ RemotePeerId' = [RemotePeerId EXCEPT ![p] = id]
    /\ last' = Effect("SetRemotePeerId", p, id, NoWww, <<>>, <<>>)
    /\ UNCHANGED <<AutoLogErrors, enabled, timeSincePollMs, lastGetComplete, gets, posts,
                   relay, answerPending, elapsedSincePoll>>

RedirectNext ==
    \/ \E p \in Local, id \in Peers : SetRemotePeerId(p, id)
    \/ \E p \in Local : Update(p, LongFrame)
    \/ \E p \in Local : GetAnswered(p)
    \/ \E p \in Local, c \in Candidates, i \in LineIndexes, mid \in Mids :
          OnIceCandiateReadyToSend(p, c, i, mid)
    \/ \E p \in Local, offer \in Sdps : OnSdpOfferReadyToSend(p, offer)
    \/ \E post \in BagToSet(posts) : PostDone(post, "ok")
    \/ \E id \in Peers \ Local : RemoteTook(id)

Redirect == Init /\ [][RedirectNext]_vars

(***************************************************************************)
(* Two signalers, "A" and "B", each the other's remote peer, alone on the  *)
(* relay; "A" makes the offers; every request reaches the relay            *)
(***************************************************************************)
HandshakeInit == Init /\ AutoLogErrors = [p \in Peers |-> TRUE]

HandshakeNext ==
    \/ \E p \in Peers : Update(p, LongFrame)
    \/ \E p \in Peers : GetAnswered(p)
    \/ \E offer \in Sdps : OnSdpOfferReadyToSend("A", offer)
    \/ \E p \in Peers, answer \in Sdps : OnSdpAnswerReadyToSend(p, answer)
    \/ \E post \in BagToSet(posts) : PostDone(post, "ok")

Handshake ==
    /\ HandshakeInit
    /\ [][HandshakeNext]_vars
    /\ \A p \in Peers :
          /\ WF_vars(Update(p, LongFrame))
          /\ WF_vars(GetAnswered(p))
          /\ WF_vars(\E answer \in Sdps : OnSdpAnswerReadyToSend(p, answer))
          /\ WF_vars(\E post \in BagToSet(posts) :
                         post.to = p /\ PostDone(post, "ok"))

(***************************************************************************)
(* Properties                                                              *)
(***************************************************************************)
\* the step resumes p's CO_GetAndProcessFromServer with a finished request
GetFinishes(p) == gets'[p] < gets[p]

\* the step resumes it with a decoded message of the given type
GetDelivers(p, type) ==
    /\ GetFinishes(p)
    /\ last'.www.status = "ok"
    /\ last'.www.text # <<>>
    /\ last'.www.text[1].MessageType = type

IceParts(msg) == Split(msg.Data, msg.IceDataSeparator[1])

HasCall(calls, op) == \E k \in 1..Len(calls) : calls[k].op = op

\* C1: at any time at most one CO_GetAndProcessFromServer coroutine has been
\* started and has not yet ended, whatever the ticks, completions and
\* publishes did.
C1_AtMostOneFetch == \A p \in Peers : gets[p] <= 1

\* a tick found the interval over and the previous fetch still outstanding
C1_Witness ==
    /\ last.op = "Update" /\ last.outcome = "busy"
    /\ gets[last.peer] = 1
    /\ timeSincePollMs[last.peer] > PollTimeMs

\* C2: every fetch that ends, whatever its outcome, leaves lastGetComplete
\* true.
C2_GuardClearedOnCompletion ==
    [][\A p \in Peers : GetFinishes(p) => lastGetComplete'[p]]_vars

\* C3: an Ice message whose Data has fewer than 3 non-empty segments is
\* dropped: AddIceCandidate is not called, no exception leaves the
\* coroutine, and the guard is cleared so that the next tick polls again.
C3_MalformedIceDropped ==
    [][\A p \in Peers :
          (GetDelivers(p, "Ice") /\ Len(IceParts(last'.www.text[1])) < 3)
          => /\ ~HasCall(last'.calls, "AddIceCandidate")
             /\ last'.outcome # "exception"
             /\ lastGetComplete'[p]]_vars

\* C4: a fetched Offer makes exactly the calls SetRemoteDescription("offer",
\* data), CreateAnswer(), in this order; a fetched Answer makes exactly the
\* call SetRemoteDescription("answer", data), asks for no answer and starts
\* no publish; a fetched Ice message with three segments, the second an
\* integer, makes exactly the call AddIceCandidate with the three fields.
C4_InboundRouting ==
    [][\A p \in Peers :
          LET msg == last'.www.text[1]
          IN  /\ GetDelivers(p, "Offer") =>
                    last'.calls = <<SetRemoteDescription("offer", msg.Data),
                                    CreateAnswer>>
              /\ GetDelivers(p, "Answer") =>
                    /\ last'.calls = <<SetRemoteDescription("answer", msg.Data)>>
                    /\ answerPending' = answerPending
                    /\ posts' = posts
              /\ (GetDelivers(p, "Ice") /\ Len(IceParts(msg)) = 3
                                        /\ IsInt(IceParts(msg)[2])) =>
                    last'.calls = <<AddIceCandidate(IceParts(msg)[1],
                                                    IntParse(IceParts(msg)[2]),
                                                    IceParts(msg)[3])>>]_vars

\* an Offer has just been dispatched: remote description, then the answer
C4_Witness ==
    /\ last.op = "Get" /\ last.www.status = "ok"
    /\ last.www.text = ToJson(OfferMessage(<<"v">>))
    /\ Len(last.calls) = 2
    /\ answerPending[last.peer]

\* the step starts a CO_GetAndProcessFromServer for p
GetIssued(p) == gets'[p] = gets[p] + 1

C7_IdleStability ==
    [][\A p \in Peers, elapsed \in ElapsedValues :
          (Update(p, elapsed) /\ elapsedSincePoll[p] + elapsed < PollTimeMs)
          => ~GetIssued(p)]_vars

\* ticks have added up to less than the interval, with the guard clear
C7_Witness ==
    /\ last.op = "Update" /\ last.outcome = "wait"
    /\ elapsedSincePoll[last.peer] > 0
    /\ elapsedSincePoll[last.peer] < PollTimeMs
    /\ lastGetComplete[last.peer]
    /\ gets[last.peer] = 0

NoSeparator(str) == \A k \in 1..Len(str) : str[k] # "|"

\* C8: a candidate without "|" in it, sent with its line index and mid as
\* "candidate|index|mid", reaches AddIceCandidate on the receiving side as
\* the same three values.
C8_IceRoundTrip ==
    [][\A p \in Peers, t \in RemoteIce :
          (/\ GetFinishes(p)
           /\ last'.www = Www("ok", ToJson(IceMessage(t[1], t[2], t[3])))
           /\ NoSeparator(t[1]))
          => last'.calls = <<AddIceCandidate(t[1], t[2], t[3])>>]_vars

\* C9: a fetch answered 404 calls nothing on the native peer, writes nothing
\* to the console when AutoLogErrors has its default (true), ends without an
\* exception and leaves the guard clear.
C9_NotFoundIsQuiet ==
    [][\A p \in Peers :
          (GetFinishes(p) /\ last'.www.status = "notFound" /\ AutoLogErrors[p])
          => /\ last'.calls = <<>>
             /\ last'.logs = <<>>
             /\ last'.outcome = "complete"
             /\ lastGetComplete'[p]
             /\ answerPending' = answerPending]_vars

\* a fetch has just been answered 404 by a signaler that logs errors
C9_Witness ==
    /\ last.op = "Get" /\ last.www.status = "notFound"
    /\ AutoLogErrors[last.peer]
    /\ lastGetComplete[last.peer]
    /\ gets[last.peer] = 0

\* C10: with frames that take time and requests that end, fetches are
\* issued again and again, whatever the fetches before them returned.
C10_PollingNeverStops ==
    \A p \in Local :
        []<>(last.op = "Update" /\ last.peer = p /\ last.outcome = "poll")

\* the oldest text waiting for B is an Offer of A
OfferWaiting(sdp) ==
    relay["B"] # <<>> /\ Head(relay["B"]) = ToJson(OfferMessage(sdp))

OfferApplied(sdp) ==
    /\ last.op = "Get" /\ last.peer = "B"
    /\ last.www = Www("ok", ToJson(OfferMessage(sdp)))
    /\ last.calls = <<SetRemoteDescription("offer", sdp), CreateAnswer>>

AnswerPublished ==
    /\ last.op = "Post" /\ last.peer = "B" /\ last.outcome = "Answer"
    /\ \E post \in BagToSet(posts) :
          /\ post.from = "B" /\ post.to = "A"
          /\ post.text[1].MessageType = "Answer"

AnswerWaiting(sdp) ==
    relay["A"] # <<>> /\ Head(relay["A"]) = ToJson(AnswerMessage(sdp))

AnswerApplied(sdp) ==
    /\ last.op = "Get" /\ last.peer = "A"
    /\ last.www = Www("ok", ToJson(AnswerMessage(sdp)))
    /\ last.calls = <<SetRemoteDescription("answer", sdp)>>

\* C5: an Offer of A that reached the relay is returned by a later fetch of
\* B, which applies it and asks for the answer; the answer is published for
\* A; once it reached the relay a later fetch of A returns it and A applies
\* it, asking for no answer and publishing nothing.  B's successful fetches
\* return the oldest waiting Offer, A's return Answers only.
C5_Handshake ==
    /\ \A sdp \in Sdps : OfferWaiting(sdp) ~> OfferApplied(sdp)
    /\ answerPending["B"] ~> AnswerPublished
    /\ \A sdp \in Sdps : AnswerWaiting(sdp) ~> AnswerApplied(sdp)
    /\ [][/\ (GetFinishes("B") /\ last'.www.status = "ok") =>
                /\ relay["B"] # <<>>
                /\ last'.www.text = Head(relay["B"])
                /\ last'.www.text[1].MessageType = "Offer"
          /\ (GetFinishes("A") /\ last'.www.status = "ok") =>
                /\ relay["A"] # <<>>
                /\ last'.www.text = Head(relay["A"])
                /\ last'.www.text[1].MessageType = "Answer"
                /\ posts' = posts
                /\ answerPending' = answerPending
                /\ ~HasCall(last'.calls, "CreateAnswer")]_vars

\* A has just applied the Answer that B published for it
C5_Witness ==
    /\ last.op = "Get" /\ last.peer = "A"
    /\ last.www = Www("ok", ToJson(AnswerMessage(<<"v">>)))
    /\ last.calls = <<SetRemoteDescription("answer", <<"v">>)>>
    /\ ~answerPending["A"]

\* the step starts one PostToServer of p carrying a message of the given type
PostStarts(p, type) ==
    /\ BagCardinality(posts') = BagCardinality(posts) + 1
    /\ \E post \in BagToSet(posts') :
          /\ CopiesIn(post, posts') = CopiesIn(post, posts) + 1
          /\ post.from = p
          /\ post.text # <<>>
          /\ post.text[1].MessageType = type

\* the step resumes a PostToServer of p with the given request status
PostFinishes(p, status) ==
    /\ last'.op = "PostDone"
    /\ last'.peer = p
    /\ last'.outcome = status

\* C11: each offer, answer or candidate handed to the signaler starts exactly
\* one POST carrying a message of the matching type, and a POST that ends in
\* a network or HTTP error is given up: its coroutine ends, nothing is sent
\* in its place, the relay receives nothing, and at most one line is logged.
C11_NoRetry ==
    [][\A p \in Peers :
          /\ (\E offer \in Sdps : OnSdpOfferReadyToSend(p, offer))
                => PostStarts(p, "Offer")
          /\ (\E answer \in Sdps : OnSdpAnswerReadyToSend(p, answer))
                => PostStarts(p, "Answer")
          /\ (\E c \in Candidates, i \in LineIndexes, mid \in Mids :
                 OnIceCandiateReadyToSend(p, c, i, mid))
                => PostStarts(p, "Ice")
          /\ (\E status \in {"networkError", "serverError"} : PostFinishes(p, status))
                => /\ BagCardinality(posts') = BagCardinality(posts) - 1
                   /\ \A post \in BagToSet(posts') :
                         CopiesIn(post, posts') <= CopiesIn(post, posts)
                   /\ relay' = relay
                   /\ gets' = gets
                   /\ last'.calls = <<>>
                   /\ Len(last'.logs) <= 1]_vars

\* a POST of "A" failed and nothing is in flight in its place
C11_Witness ==
    /\ last.op = "PostDone"
    /\ last.peer = "A"
    /\ last.outcome \in {"networkError", "serverError"}
    /\ posts = EmptyBag
    /\ relay["B"] = <<>>

\* C12: a POST goes to the RemotePeerId the field held when the callback ran:
\* the request started by a callback of p is addressed to RemotePeerId[p] of
\* that moment, an assignment to RemotePeerId touches no request in flight,
\* and a text reaches the queue of an id only from a request that was
\* addressed to that id.  A GET reads the queue of the signaler's own id and
\* no other, whatever RemotePeerId is.
C12_AddressFixedAtStart ==
    [][/\ \A p \in Peers :
             /\ (last'.op = "Post" /\ last'.peer = p)
                   => \E post \in BagToSet(posts') :
                         /\ CopiesIn(post, posts') = CopiesIn(post, posts) + 1
                         /\ post.from = p
                         /\ post.to = RemotePeerId[p]
             /\ (GetFinishes(p) /\ last'.www.status = "ok")
                   => /\ relay[p] # <<>>
                      /\ last'.www.text = Head(relay[p])
                      /\ relay' = [relay EXCEPT ![p] = Tail(@)]
             /\ (GetFinishes(p) /\ last'.www.status = "notFound")
                   => relay[p] = <<>> /\ relay' = relay
       /\ RemotePeerId' # RemotePeerId => posts' = posts /\ relay' = relay
       /\ \A id \in Peers :
             Len(relay'[id]) > Len(relay[id])
                => \E post \in BagToSet(posts) :
                      /\ post.to = id
                      /\ posts' = posts (-) SetToBag({post})
                      /\ relay'[id] = Append(relay[id], post.text)]_vars

\* a POST of "A" started for "B" reached the queue of "B" after RemotePeerId
\* had been changed to the id "A" polls itself
C12_Witness ==
    /\ last.op = "PostDone"
    /\ last.peer = "A"
    /\ last.outcome = "ok"
    /\ RemotePeerId["A"] = "A"
    /\ relay["B"] # <<>>
    /\ relay["A"] = <<>>
    /\ posts = EmptyBag

\* the body of a 200 answer that FromJson does not turn into a message
Undecodable(text) == text = <<>> \/ FromJsonThrows(text)

\* a decoded message whose type the switch has no case for
UnknownType(text) ==
    /\ ~Undecodable(text)
    /\ text[1].MessageType \notin {"Offer", "Answer", "Ice"}

IsDiagnostic(line) ==
    line \in {"Unknown message", "Failed to deserialize JSON message"}

\* C13: with error logging on, a fetch answered with a message of a type the
\* switch does not know, or with a body that does not decode, calls nothing
\* on the native peer, writes a diagnostic line, and ends like any other
\* fetch, with lastGetComplete true so that polling goes on.
C13_UndecodableDropped ==
    [][\A p \in Peers :
          (/\ GetFinishes(p)
           /\ last'.www.status = "ok"
           /\ AutoLogErrors[p]
           /\ Undecodable(last'.www.text) \/ UnknownType(last'.www.text))
          => /\ last'.calls = <<>>
             /\ \E k \in 1..Len(last'.logs) : IsDiagnostic(last'.logs[k])
             /\ last'.outcome = "complete"
             /\ lastGetComplete'[p]]_vars

\* C14: AddIceCandidate is called only at the end of a fetch that delivered
\* an Ice message whose Data splits into exactly three non-empty fields; a
\* payload of fewer or of more fields never reaches the native peer.
C14_ExactlyThreeFields ==
    [][\A p \in Peers :
          (GetFinishes(p) /\ HasCall(last'.calls, "AddIceCandidate"))
          => /\ GetDelivers(p, "Ice")
             /\ Len(IceParts(last'.www.text[1])) = 3]_vars

\* C15: once the session of p has ended no fetch is issued for p, and a
\* fetch or a publish of p that ends afterwards calls nothing on the native
\* peer and leaves timeSincePollMs and lastGetComplete as they were.
C15_LateCompletionsIgnored ==
    [][\A p \in Peers :
          ~enabled[p]
          => /\ ~GetIssued(p)
             /\ (GetFinishes(p) \/ \E status \in {"ok", "networkError", "serverError"} :
                                      PostFinishes(p, status))
                   => /\ last'.calls = <<>>
                      /\ timeSincePollMs'[p] = timeSincePollMs[p]
                      /\ lastGetComplete'[p] = lastGetComplete[p]]_vars

\* C16: received messages are dispatched one at a time, in the order of the
\* fetches: the step that issues a fetch of p finds lastGetComplete true and
\* no fetch of p pending and sets lastGetComplete false; lastGetComplete
\* goes back to true only in the step that ends that fetch, with every call
\* its answer asks for already made on the native peer; so no fetch is
\* issued, and no dispatch starts, while another is not finished.
C16_DispatchInFetchOrder ==
    [][\A p \in Peers :
          /\ GetIssued(p)
                => /\ lastGetComplete[p] /\ ~lastGetComplete'[p]
                   /\ gets[p] = 0
          /\ (~lastGetComplete[p] /\ lastGetComplete'[p])
                => /\ GetFinishes(p)
                   /\ gets'[p] = 0
                   /\ last'.op = "Get" /\ last'.peer = p
                   /\ last'.outcome = "complete"
                   /\ last'.calls = Process(last'.www, AutoLogErrors[p]).calls
          /\ (GetFinishes(p) /\ last'.calls # <<>>) => ~lastGetComplete[p]]_vars

\* "A" has dispatched an Offer (the answer it asked for is still awaited)
\* and has issued its next fetch
C16_Witness ==
    /\ answerPending["A"]
    /\ last.op = "Update" /\ last.outcome = "poll" /\ last.peer = "A"
    /\ gets["A"] = 1
    /\ ~lastGetComplete["A"]

\* C17: a fetch ends in one of three ways, a message, nothing to fetch (only
\* when the relay answers 404), or a transport error; with error logging on,
\* a fetch that ends in a network failure or in an HTTP error other than 404
\* writes a diagnostic line and ends with lastGetComplete true, while one
\* answered 404 writes nothing.
C17_TransportErrorsReported ==
    [][\A p \in Peers :
          (GetFinishes(p) /\ AutoLogErrors[p])
          => /\ last'.www.status \in {"ok", "notFound", "networkError", "serverError"}
             /\ last'.www.status \in {"networkError", "serverError"}
                   => /\ last'.logs # <<>>
                      /\ last'.calls = <<>>
                      /\ last'.outcome = "complete"
                      /\ lastGetComplete'[p]
             /\ last'.www.status = "notFound" => last'.logs = <<>>]_vars

\* C18: publishing does not touch the poll state: a step that starts or ends
\* a POST leaves timeSincePollMs, lastGetComplete and the pending fetch as
\* they were; lastGetComplete changes only in Update() and at the end of a
\* fetch; and a callback can start a POST whether or not a fetch is in
\* flight and whatever POSTs are in flight already (up to the bound of the
\* model).
C18_PublishLeavesPollState ==
    [][/\ posts' # posts
             => /\ timeSincePollMs' = timeSincePollMs
                /\ lastGetComplete' = lastGetComplete
                /\ gets' = gets
                /\ last'.calls = <<>>
       /\ lastGetComplete' # lastGetComplete => last'.op \in {"Update", "Get"}
       /\ \A p \in Local :
             PostsOf(p) < MaxPosts
                => /\ ENABLED (\E offer \in Sdps : OnSdpOfferReadyToSend(p, offer))
                   /\ ENABLED (\E c \in Candidates, i \in LineIndexes, mid \in Mids :
                                  OnIceCandiateReadyToSend(p, c, i, mid))]_vars

\* a POST was started while a fetch and another POST were in flight
C18_Witness ==
    /\ last.op = "Post" /\ last.peer = "A"
    /\ gets["A"] = 1
    /\ ~lastGetComplete["A"]
    /\ PostsOf("A") >= 2

\* C19: polling is never faster than the interval: when a tick issues a fetch
\* of p, the elapsed times of the ticks since the start, or since the tick
\* that issued the previous fetch, add up to more than PollTimeMs, however
\* soon that previous fetch ended; timeSincePollMs never runs ahead of that
\* sum.
C19_NeverFasterThanInterval ==
    [][\A p \in Peers :
          /\ GetIssued(p) => elapsedSincePoll[p] > PollTimeMs
          /\ Min(timeSincePollMs'[p], ElapsedCap) <= elapsedSincePoll'[p]]_vars

\* a fetch of "A" has just been issued, the ticks before it having added up
\* to more than the interval
C19_Witness ==
    /\ last.op = "Update" /\ last.peer = "A" /\ last.outcome = "poll"
    /\ gets["A"] = 1
    /\ elapsedSincePoll["A"] = 0

\* C20: past the interval the accumulator is frozen: a tick that finds
\* timeSincePollMs above PollTimeMs while a fetch is in flight changes
\* neither timeSincePollMs nor lastGetComplete; timeSincePollMs never
\* exceeds PollTimeMs by more than the longest frame; and a tick that finds
\* timeSincePollMs above PollTimeMs with the fetch ended issues the next
\* fetch at once and sets timeSincePollMs to 0.
C20_FrozenPastInterval ==
    [][\A p \in Peers :
          /\ timeSincePollMs'[p] <= PollTimeMs + LongFrame
          /\ \A elapsed \in ElapsedValues :
                (Update(p, elapsed) /\ timeSincePollMs[p] > PollTimeMs)
                => IF gets[p] > 0
                   THEN /\ timeSincePollMs'[p] = timeSincePollMs[p]
                        /\ lastGetComplete'[p] = lastGetComplete[p]
                        /\ ~GetIssued(p)
                   ELSE /\ GetIssued(p)
                        /\ timeSincePollMs'[p] = 0]_vars

====
